---- MODULE Spec2Model ----
(***************************************************************************)
(* Model of publish_machineid.py: configuration loading, the MQTTPublisher *)
(* session (connect / publish / disconnect and its three callbacks, which  *)
(* the paho network loop thread runs concurrently with the main flow), the *)
(* payload generator boundary and the orchestration loop of main().        *)
(***************************************************************************)
EXTENDS Integers, Sequences, FiniteSets, TLC

\* ------------------------------------------------------------------ bounds
\* Longest `machines` list of a configuration file.
MaxJobs == 2
\* Largest global_settings.retry_attempts of a configuration file.
MaxRetryAttempts == 2
\* Polls of the connect wait (the 10 s ceiling in 0.1 s sleeps).
ConnectPolls == 1
\* Polls of the publish wait (publish_timeout in 0.1 s sleeps).
PublishPolls == 1
\* Message ids the client hands out in one run; once they are used up
\* client.publish only reports errors.
MaxMids == 2

\* Calls of disconnect made on one publisher object.
MaxDisconnectCalls == 3

\* ------------------------------------------------------- values and inputs
SUFFIX == "MachineIdentificationType"

\* A topic is text (a sequence of fragments) or, since load_config only
\* checks that the key is present, some non-string JSON value.
Topics ==
    { [isStr |-> TRUE,  text |-> <<"uns", "/", SUFFIX>>],
      [isStr |-> TRUE,  text |-> <<"uns", "/", "Press">>],
      [isStr |-> FALSE, text |-> <<>>] }

StrTopic(t) == [isStr |-> TRUE, text |-> t]

\* The machine entries a configuration file can hold.
MachineEntries ==
    { [isDict |-> FALSE, hasType |-> FALSE, hasTopic |-> FALSE,
       type |-> "", topic |-> StrTopic(<<>>)],
      [isDict |-> TRUE, hasType |-> FALSE, hasTopic |-> TRUE,
       type |-> "", topic |-> StrTopic(<<"uns", "/", "Press">>)],
      [isDict |-> TRUE, hasType |-> TRUE, hasTopic |-> FALSE,
       type |-> "Press", topic |-> StrTopic(<<>>)],
      [isDict |-> TRUE, hasType |-> TRUE, hasTopic |-> TRUE,
       type |-> "Press", topic |-> StrTopic(<<"uns", "/", SUFFIX>>)],
      [isDict |-> TRUE, hasType |-> TRUE, hasTopic |-> TRUE,
       type |-> "Press", topic |-> StrTopic(<<"uns", "/", "Press">>)],
      [isDict |-> TRUE, hasType |-> TRUE, hasTopic |-> TRUE,
       type |-> "robot", topic |-> StrTopic(<<"uns", "/", "Press">>)],
      [isDict |-> TRUE, hasType |-> TRUE, hasTopic |-> TRUE,
       type |-> "Press", topic |-> [isStr |-> FALSE, text |-> <<>>]] }

MachineLists == UNION { [1..n -> MachineEntries] : n \in 0..MaxJobs }

BrokerShapes ==
    { [hasBroker |-> FALSE, hasHost |-> FALSE, hasPort |-> FALSE],
      [hasBroker |-> TRUE,  hasHost |-> FALSE, hasPort |-> TRUE],
      [hasBroker |-> TRUE,  hasHost |-> TRUE,  hasPort |-> FALSE],
      [hasBroker |-> TRUE,  hasHost |-> TRUE,  hasPort |-> TRUE] }

\* What the file at config_path can be.
ConfigFiles ==
    { [file |-> f, broker |-> [hasBroker |-> TRUE, hasHost |-> TRUE, hasPort |-> TRUE],
       machinesKind |-> "list", machines |-> <<>>, retry_attempts |-> 0]
        : f \in {"notfound", "malformed"} }
    \cup
    { [file |-> "ok", broker |-> b, machinesKind |-> k, machines |-> <<>>,
       retry_attempts |-> 0]
        : b \in BrokerShapes, k \in {"missing", "notlist"} }
    \cup
    { [file |-> "ok", broker |-> b, machinesKind |-> "list", machines |-> m,
       retry_attempts |-> r]
        : b \in BrokerShapes, m \in MachineLists, r \in 0..MaxRetryAttempts }

\* ------------------------------------------------------------ load_config
\* TRUE when load_config returns the configuration, FALSE when it ends the
\* process with sys.exit(1).
\* Variant: a loader that validates the first machine entry only.
load_config_FirstEntryOnly(c) ==
    /\ c.file = "ok"
    /\ c.broker.hasBroker
    /\ c.machinesKind = "list"
    /\ c.broker.hasHost
    /\ c.broker.hasPort
    /\ \A i \in 1..Len(c.machines) :
          i = 1 => /\ c.machines[i].isDict
                   /\ c.machines[i].hasType
                   /\ c.machines[i].hasTopic

load_config(c) ==
    /\ c.file = "ok"
    /\ c.broker.hasBroker
    /\ c.machinesKind # "missing"
    /\ c.machinesKind = "list"
    /\ c.broker.hasHost
    /\ c.broker.hasPort
    /\ \A i \in 1..Len(c.machines) :
          /\ c.machines[i].isDict
          /\ c.machines[i].hasType
          /\ c.machines[i].hasTopic

\* ------------------------------------------------ generate_machine_payload
ValidMachineTypes ==
    {"press", "lam", "slit", "bag", "pump", "pumping_station", "tank"}

\* str.lower() on the machine types of MachineEntries.
Lower(s) == IF s = "Press" THEN "press" ELSE s

\* str.upper() on the canonical machine type.
Upper(s) == IF s = "press" THEN "PRESS" ELSE s

\* random.randint(1000, 9999): its two extreme results.
AssetNumbers == {1000, 9999}

None == [None |-> TRUE]

MachinePayload(machine_type, n) ==
    [MachineIdentificationType |->
        [AssetId |-> [prefix |-> Upper(Lower(machine_type)), number |-> n]]]

\* The results the subprocess call can give: None when the generator script
\* rejects the machine type, else one freshly fabricated payload.
generate_machine_payload(machine_type) ==
    IF Lower(machine_type) \in ValidMachineTypes
    THEN { MachinePayload(machine_type, n) : n \in AssetNumbers }
    ELSE { None }

\* ---------------------------------------------------------- topic transform
\* topic.endswith('MachineIdentificationType')
EndsWithSuffix(text) == Len(text) > 0 /\ text[Len(text)] = SUFFIX

\* Variant: the wrapper is kept whatever the topic.
TopicTransform_KeepsWrapper(text, p) == p

TopicTransform(text, p) ==
    IF EndsWithSuffix(text) THEN p.MachineIdentificationType ELSE p

\* ------------------------------------------------------- decisions of main
\* The exit status chosen by the summary block.
\* Variant: a partial success ends with status 0.
SummaryExitCode_PartialIsSuccess(successful, total) ==
    IF successful = 0 THEN 1 ELSE 0

SummaryExitCode(successful, total) ==
    IF successful = 0 THEN 1
    ELSE IF successful < total THEN 1
    ELSE 0

\* `if attempt < retry_attempts - 1` : sleep and go round again.
\* Variant: a sleep follows the last attempt as well.
SleepsBeforeRetry_Always(att, retries) == TRUE

SleepsBeforeRetry(att, retries) == att < retries - 1

\* `for attempt in range(retry_attempts)` : the loop has another iteration.
\* Variant: range(retry_attempts + 1).
HasAttempt_OneMore(att, retries) == att <= retries

HasAttempt(att, retries) == att < retries

\* `if publisher:` of the finally block.
\* Variant: a finally block without the disconnect call.
FinallyDisconnects_Never(pub) == FALSE

FinallyDisconnects(pub) == pub

\* `if not publisher.connect(): sys.exit(1)`
\* Variant: the result of connect is ignored.
AbortsOnConnectResult_Never(ok) == FALSE

AbortsOnConnectResult(ok) == ~ok

\* `if not self.connected: return False` at the head of publish.
\* Variant: publish without the connected check.
PublishFailsFast_Never(conn) == FALSE

PublishFailsFast(conn) == ~conn

\* `self.publish_results[mid]` : the entry a publish call looks at is the
\* one under its own message id.
\* Variant: any delivered entry of the table satisfies the call.
ResultEntry_AnyDelivered(table, m) == \E k \in DOMAIN table : table[k]

ResultEntry(table, m) == table[m]

\* `if self.publish_results[mid]: return True else: ... return False`
PublishVerdict(entry) == entry

\* `self.publish_results[mid] = False` after client.publish returned.
\* Variant: the new table entry starts out as delivered.
PendingMark_Delivered == TRUE

PendingMark == FALSE

\* Whether an exception raised inside publish reaches its caller; the
\* `except Exception` clause returns False instead.
\* Variant: publish without the except clause.
PublishExceptionPropagates_Yes == TRUE

PublishExceptionPropagates == FALSE

\* `continue` after a None payload: where control goes next.
\* Variant: `break` in place of `continue`.
AfterGenerationFailure_Break == "summary"

AfterGenerationFailure == "job"

\* ------------------------------------------------------------------- state
VARIABLES
    config, dry_run,                       \* inputs of the run
    pc, exitCode,                          \* main flow position, exit status
    idx, payload, publish_payload,         \* locals of main
    attempt, published, successful_publications,
    timeout, mid, wait_time,               \* locals of connect and publish
    publisher, client, connected,          \* MQTTPublisher object
    publish_results, loopRunning,
    nextMid, inflight,                     \* paho client and broker
    connectCalls, connectResult,           \* observations
    disconnectCalls, genLog, attempts, lastPublish,
    publishCalls, ackedMids, raised, sleeps,
    summaryReached, jobOutcome,
    wire, sent, generated, connackOk

inputVars == <<config, dry_run>>
mainVars  == <<pc, exitCode, idx, payload, publish_payload, attempt,
               published, successful_publications, timeout, mid, wait_time>>
pubVars   == <<publisher, client, connected, publish_results, loopRunning>>
envVars   == <<nextMid, inflight>>
obsVars   == <<connectCalls, connectResult, disconnectCalls, genLog, attempts,
               lastPublish, publishCalls, ackedMids, raised, sleeps,
               summaryReached, jobOutcome>>
\* wire: job and topic of every message handed to the client, in order;
\* sent: the payloads handed over for the current job; generated: what the
\* generator returned for the current job; connackOk: on_connect has fired
\* with rc = 0.
logVars   == <<wire, sent, generated, connackOk>>
vars == <<inputVars, mainVars, pubVars, envVars, obsVars, logVars>>

machines == config.machines
total_machines == Len(config.machines)
retry_attempts == config.retry_attempts

\* `for i, machine_config in enumerate(config['machines'], 1)` : the entry
\* the i-th iteration works on.
\* Variant: the list is walked from its end.
CurrentJob_Reversed(i) == machines[total_machines + 1 - i]

CurrentJob(i) == machines[i]

\* `payload = generate_machine_payload(machine_type)` : the local takes the
\* generator's new result on every iteration.
\* Variant: a payload once generated is kept for the jobs that follow.
FreshPayload_Cached(old, new) ==
    IF old # None /\ new # None THEN old ELSE new

FreshPayload(old, new) == new

\* `timeout -= 0.1` in the polling loop of connect, in poll units.
\* Variant: the remaining wait is never counted down.
ConnectPollTick_Stuck(t) == t

ConnectPollTick(t) == t - 1

\* `if self.client:` of disconnect.
\* Variant: the client is used without the check.
DisconnectGuard_Missing(c) == TRUE

DisconnectGuard(c) == c

\* `if rc == 0` of on_connect.
\* Variant: any acknowledgment counts as a connection.
ConnackAccepted_Any(rc) == TRUE

ConnackAccepted(rc) == rc = 0

\* `successful_publications += 1`
\* Variant: a success is counted twice.
CountSuccess_Twice(n) == n + 2

CountSuccess(n) == n + 1

Put(f, k, v) == [x \in (DOMAIN f) \cup {k} |-> IF x = k THEN v ELSE f[x]]

NoPublish == [cause |-> "none", ok |-> FALSE, mid |-> 0, acked |-> FALSE]

Init ==
    /\ config \in ConfigFiles
    /\ dry_run \in BOOLEAN
    /\ pc = "load"
    /\ exitCode = -1
    /\ idx = 0
    /\ payload = None
    /\ publish_payload = None
    /\ attempt = 0
    /\ published = FALSE
    /\ successful_publications = 0
    /\ timeout = 0
    /\ mid = 0
    /\ wait_time = 0
    /\ publisher = FALSE
    /\ client = FALSE
    /\ connected = FALSE
    /\ publish_results = << >>
    /\ loopRunning = FALSE
    /\ nextMid = 1
    /\ inflight = {}
    /\ connectCalls = 0
    /\ connectResult = "none"
    /\ disconnectCalls = 0
    /\ genLog = << >>
    /\ attempts = << >>
    /\ lastPublish = NoPublish
    /\ publishCalls = 0
    /\ ackedMids = {}
    /\ raised = "none"
    /\ sleeps = 0
    /\ summaryReached = FALSE
    /\ jobOutcome = << >>
    /\ wire = << >>
    /\ sent = << >>
    /\ generated = None
    /\ connackOk = FALSE

\* --------------------------------------------------------------- main flow
\* main, lines 227-228: load_config either returns or exits with status 1.
LoadConfig ==
    /\ pc = "load"
    /\ IF load_config(config)
       THEN pc' = "init" /\ UNCHANGED exitCode
       ELSE pc' = "done" /\ exitCode' = 1
    /\ UNCHANGED <<inputVars, idx, payload, publish_payload, attempt, published,
                   successful_publications, timeout, mid, wait_time,
                   pubVars, envVars, obsVars>>
    /\ UNCHANGED logVars

\* Variant: the publisher is built and connected in a dry run too.
InitPublisher_IgnoresDryRun ==
    /\ pc = "init"
    /\ pc' = "connect" /\ publisher' = TRUE
    /\ UNCHANGED <<inputVars, exitCode, idx, payload, publish_payload, attempt,
                   published, successful_publications, timeout, mid, wait_time,
                   client, connected, publish_results, loopRunning,
                   envVars, obsVars>>
    /\ UNCHANGED logVars

\* main, lines 230-237: no publisher in a dry run, else build it and call
\* connect.
InitPublisher ==
    /\ pc = "init"
    /\ IF dry_run
       THEN pc' = "job" /\ UNCHANGED publisher
       ELSE pc' = "connect" /\ publisher' = TRUE
    /\ UNCHANGED <<inputVars, exitCode, idx, payload, publish_payload, attempt,
                   published, successful_publications, timeout, mid, wait_time,
                   client, connected, publish_results, loopRunning,
                   envVars, obsVars>>
    /\ UNCHANGED logVars

\* The caller's reaction to the value connect returns (main, lines 237-239).
ConnectReturns(ok) ==
    /\ connectResult' = IF ok THEN "true" ELSE "false"
    /\ IF AbortsOnConnectResult(ok)
       THEN pc' = "done" /\ exitCode' = 1
       ELSE pc' = "job" /\ UNCHANGED exitCode

\* connect, lines 117-141: build the client, open the socket, start the
\* network loop. Whatever raises on the way is caught and makes connect
\* return False.
ConnectSetup ==
    /\ pc = "connect"
    /\ connectCalls' = connectCalls + 1
    /\ client' = TRUE
    /\ \/ /\ loopRunning' = TRUE
          /\ timeout' = ConnectPolls
          /\ pc' = "conn_wait"
          /\ UNCHANGED <<exitCode, connectResult>>
       \/ /\ ConnectReturns(FALSE)
          /\ UNCHANGED <<loopRunning, timeout>>
    /\ UNCHANGED <<inputVars, idx, payload, publish_payload, attempt, published,
                   successful_publications, mid, wait_time,
                   publisher, connected, publish_results, envVars,
                   disconnectCalls, genLog, attempts, lastPublish,
                   publishCalls, ackedMids, raised, sleeps,
                   summaryReached, jobOutcome>>
    /\ UNCHANGED logVars

\* connect, lines 142-144: one evaluation of the polling loop's condition.
ConnectWait ==
    /\ pc = "conn_wait"
    /\ IF ~connected /\ timeout > 0
       THEN timeout' = ConnectPollTick(timeout) /\ UNCHANGED pc
       ELSE pc' = "conn_check" /\ UNCHANGED timeout
    /\ UNCHANGED <<inputVars, exitCode, idx, payload, publish_payload, attempt,
                   published, successful_publications, mid, wait_time,
                   pubVars, envVars, obsVars>>
    /\ UNCHANGED logVars

\* connect, lines 146-153: the flag is read once more after the loop. The
\* local `timeout` ends with the call.
ConnectCheck ==
    /\ pc = "conn_check"
    /\ ConnectReturns(connected)
    /\ timeout' = 0
    /\ UNCHANGED <<inputVars, idx, payload, publish_payload, attempt, published,
                   successful_publications, mid, wait_time,
                   pubVars, envVars, connectCalls,
                   disconnectCalls, genLog, attempts, lastPublish,
                   publishCalls, ackedMids, raised, sleeps,
                   summaryReached, jobOutcome>>
    /\ UNCHANGED logVars

\* main, lines 246-257: the loop head and the payload request. When the
\* list is exhausted control falls to the summary; a None payload skips the
\* job.
NextJob ==
    /\ pc = "job"
    /\ IF idx = total_machines
       THEN /\ pc' = "summary"
            /\ UNCHANGED <<idx, payload, genLog, attempts, sleeps, jobOutcome,
                           lastPublish, publishCalls, sent, generated>>
       ELSE /\ idx' = idx + 1
            /\ genLog' = Append(genLog, idx + 1)
            /\ attempts' = << >>
            /\ sleeps' = 0
            /\ lastPublish' = NoPublish
            /\ publishCalls' = 0
            /\ sent' = << >>
            /\ \E p \in generate_machine_payload(CurrentJob(idx + 1).type) :
                  /\ payload' = FreshPayload(payload, p)
                  /\ generated' = p
                  /\ IF p = None
                     THEN /\ pc' = AfterGenerationFailure
                          /\ jobOutcome' = Append(jobOutcome, "genfail")
                     ELSE /\ pc' = "transform"
                          /\ jobOutcome' = Append(jobOutcome, "running")
    /\ UNCHANGED <<inputVars, exitCode, publish_payload, attempt, published,
                   successful_publications, timeout, mid, wait_time,
                   pubVars, envVars, connectCalls, connectResult,
                   disconnectCalls, ackedMids, raised, summaryReached,
                   wire, connackOk>>

SetOutcome(o) == jobOutcome' = [jobOutcome EXCEPT ![idx] = o]

\* main, lines 259-278: the topic transform, then the dry-run branch or the
\* entry into the retry loop. endswith on a topic that is no string raises,
\* which leaves the loop through the finally block.
Transform ==
    /\ pc = "transform"
    /\ LET topic == CurrentJob(idx).topic IN
       IF ~topic.isStr
       THEN /\ raised' = "main"
            /\ exitCode' = 1
            /\ pc' = "finally"
            /\ SetOutcome("raised")
            /\ UNCHANGED <<publish_payload, successful_publications, attempt,
                           published>>
       ELSE /\ publish_payload' = TopicTransform(topic.text, payload)
            /\ UNCHANGED <<raised, exitCode>>
            /\ IF dry_run
               THEN /\ successful_publications' = CountSuccess(successful_publications)
                    /\ SetOutcome("ok")
                    /\ pc' = "job"
                    /\ UNCHANGED <<attempt, published>>
               ELSE /\ attempt' = 0
                    /\ published' = FALSE
                    /\ UNCHANGED successful_publications
                    /\ IF HasAttempt(0, retry_attempts)
                       THEN pc' = "publish" /\ UNCHANGED jobOutcome
                       ELSE pc' = "job" /\ SetOutcome("pubfail")
    /\ UNCHANGED <<inputVars, idx, payload, timeout, mid, wait_time,
                   pubVars, envVars, connectCalls, connectResult,
                   disconnectCalls, genLog, attempts, lastPublish,
                   publishCalls, ackedMids, sleeps, summaryReached>>
    /\ UNCHANGED logVars

\* The caller's reaction to the value publish returns (main, lines 282-297).
PublishReturns(ok, cause, m) ==
    /\ attempts' = Append(attempts, ok)
    /\ lastPublish' = [cause |-> cause, ok |-> ok, mid |-> m,
                       acked |-> m \in ackedMids]
    /\ UNCHANGED <<raised, exitCode>>
    /\ IF ok
       THEN /\ successful_publications' = CountSuccess(successful_publications)
            /\ published' = TRUE
            /\ SetOutcome("ok")
            /\ pc' = "job"
            /\ UNCHANGED <<attempt, sleeps>>
       ELSE /\ UNCHANGED <<successful_publications, published>>
            /\ sleeps' = IF SleepsBeforeRetry(attempt, retry_attempts)
                         THEN sleeps + 1 ELSE sleeps
            /\ attempt' = attempt + 1
            /\ IF HasAttempt(attempt + 1, retry_attempts)
               THEN pc' = "publish" /\ UNCHANGED jobOutcome
               ELSE pc' = "job" /\ SetOutcome("pubfail")

\* An exception escaping publish would unwind main through the finally block.
PublishRaises ==
    /\ raised' = "publish"
    /\ exitCode' = 1
    /\ pc' = "finally"
    /\ SetOutcome("raised")
    /\ UNCHANGED <<attempts, lastPublish, successful_publications, published,
                   attempt, sleeps>>

\* publish, lines 157-178: the connected check, then client.publish, which
\* hands out a message id, reports an error code, or raises.
PublishSend ==
    /\ pc = "publish"
    /\ publishCalls' = publishCalls + 1
    /\ IF PublishFailsFast(connected)
       THEN /\ PublishReturns(FALSE, "not_connected", 0)
            /\ UNCHANGED <<mid, nextMid, inflight, wire, sent>>
       ELSE /\ \/ /\ nextMid <= MaxMids
                  /\ mid' = nextMid
                  /\ nextMid' = nextMid + 1
                  /\ inflight' = inflight \cup {nextMid}
                  /\ pc' = "pub_record"
                  /\ lastPublish' = NoPublish
                  /\ wire' = Append(wire, [job |-> idx,
                                           topic |-> CurrentJob(idx).topic.text])
                  /\ sent' = Append(sent, publish_payload)
                  /\ UNCHANGED <<attempts, raised, exitCode,
                                 successful_publications, published, attempt,
                                 sleeps, jobOutcome>>
               \/ /\ PublishReturns(FALSE, "rc_error", 0)
                  /\ UNCHANGED <<mid, nextMid, inflight, wire, sent>>
               \/ /\ IF PublishExceptionPropagates
                     THEN PublishRaises
                     ELSE PublishReturns(FALSE, "exception", 0)
                  /\ UNCHANGED <<mid, nextMid, inflight, wire, sent>>
    /\ UNCHANGED <<inputVars, idx, payload, publish_payload, timeout, wait_time,
                   pubVars, connectCalls, connectResult, disconnectCalls,
                   genLog, ackedMids, summaryReached, generated, connackOk>>

\* publish, lines 179-181: the id is entered in the table as pending.
PublishRecord ==
    /\ pc = "pub_record"
    /\ publish_results' = Put(publish_results, mid, PendingMark)
    /\ wait_time' = 0
    /\ pc' = "pub_wait"
    /\ UNCHANGED <<inputVars, exitCode, idx, payload, publish_payload, attempt,
                   published, successful_publications, timeout, mid,
                   publisher, client, connected, loopRunning, envVars, obsVars>>
    /\ UNCHANGED logVars

\* publish, lines 182-184: one evaluation of the polling loop's condition.
PublishWait ==
    /\ pc = "pub_wait"
    /\ IF ~ResultEntry(publish_results, mid) /\ wait_time < PublishPolls
       THEN wait_time' = wait_time + 1 /\ UNCHANGED pc
       ELSE pc' = "pub_result" /\ UNCHANGED wait_time
    /\ UNCHANGED <<inputVars, exitCode, idx, payload, publish_payload, attempt,
                   published, successful_publications, timeout, mid,
                   pubVars, envVars, obsVars>>
    /\ UNCHANGED logVars

\* publish, lines 186-190: the entry is read once more after the loop. The
\* locals `mid` and `wait_time` end with the call.
PublishResult ==
    /\ pc = "pub_result"
    /\ IF PublishVerdict(ResultEntry(publish_results, mid))
       THEN PublishReturns(TRUE, "acked", mid)
       ELSE PublishReturns(FALSE, "timeout", mid)
    /\ mid' = 0
    /\ wait_time' = 0
    /\ UNCHANGED <<inputVars, idx, payload, publish_payload, timeout, pubVars, envVars, connectCalls, connectResult,
                   disconnectCalls, genLog, publishCalls, ackedMids,
                   summaryReached>>
    /\ UNCHANGED logVars

\* main, lines 299-317: the summary and the exit status it selects.
Summary ==
    /\ pc = "summary"
    /\ summaryReached' = TRUE
    /\ exitCode' = SummaryExitCode(successful_publications, total_machines)
    /\ pc' = "finally"
    /\ UNCHANGED <<inputVars, idx, payload, publish_payload, attempt, published,
                   successful_publications, timeout, mid, wait_time,
                   pubVars, envVars, connectCalls, connectResult,
                   disconnectCalls, genLog, attempts, lastPublish,
                   publishCalls, ackedMids, raised, sleeps, jobOutcome>>
    /\ UNCHANGED logVars

\* disconnect, lines 196-200: loop_stop ends the network thread, then
\* client.disconnect closes the socket; paho may or may not run the
\* on_disconnect callback from inside that call.
disconnect ==
    /\ disconnectCalls' = disconnectCalls + 1
    /\ IF DisconnectGuard(client)
       THEN IF client
            THEN /\ loopRunning' = FALSE
                 /\ connected' \in {connected, FALSE}
                 /\ UNCHANGED raised
            ELSE /\ raised' = "disconnect"
                 /\ UNCHANGED <<loopRunning, connected>>
       ELSE UNCHANGED <<loopRunning, connected, raised>>

\* main, lines 319-322: the finally block, then the process ends.
Finally ==
    /\ pc = "finally"
    /\ IF FinallyDisconnects(publisher)
       THEN disconnect
       ELSE UNCHANGED <<disconnectCalls, loopRunning, connected, raised>>
    /\ pc' = "done"
    /\ UNCHANGED <<inputVars, exitCode, idx, payload, publish_payload, attempt,
                   published, successful_publications, timeout, mid, wait_time,
                   publisher, client, publish_results, envVars,
                   connectCalls, connectResult, genLog, attempts, lastPublish,
                   publishCalls, ackedMids, sleeps,
                   summaryReached, jobOutcome>>
    /\ UNCHANGED logVars

\* ------------------------------------------- callbacks on the network thread
NetworkThreadAlive == loopRunning /\ pc # "done"

\* on_connect, lines 94-101, with a success or a refusal code.
on_connect ==
    /\ NetworkThreadAlive
    /\ \E rc \in {0, 5} :
          /\ connected' = IF ConnackAccepted(rc) THEN TRUE ELSE connected
          /\ connackOk' = (connackOk \/ rc = 0)
    /\ UNCHANGED <<wire, sent, generated>>
    /\ UNCHANGED <<inputVars, mainVars, publisher, client, publish_results,
                   loopRunning, envVars, obsVars>>

\* on_publish, lines 103-107, for a message id the client has handed out.
on_publish ==
    /\ NetworkThreadAlive
    /\ \E m \in inflight :
          /\ publish_results' = Put(publish_results, m, TRUE)
          /\ inflight' = inflight \ {m}
          /\ ackedMids' = ackedMids \cup {m}
    /\ UNCHANGED <<inputVars, mainVars, publisher, client, connected,
                   loopRunning, nextMid, connectCalls, connectResult,
                   disconnectCalls, genLog, attempts, lastPublish,
                   publishCalls, raised, sleeps, summaryReached,
                   jobOutcome>>
    /\ UNCHANGED logVars

\* on_disconnect, lines 109-113.
on_disconnect ==
    /\ NetworkThreadAlive
    /\ connected' = FALSE
    /\ UNCHANGED <<inputVars, mainVars, publisher, client, publish_results,
                   loopRunning, envVars, obsVars>>
    /\ UNCHANGED logVars

Next ==
    \/ LoadConfig
    \/ InitPublisher
    \/ ConnectSetup
    \/ ConnectWait
    \/ ConnectCheck
    \/ NextJob
    \/ Transform
    \/ PublishSend
    \/ PublishRecord
    \/ PublishWait
    \/ PublishResult
    \/ Summary
    \/ Finally
    \/ on_connect
    \/ on_publish
    \/ on_disconnect

Spec == Init /\ [][Next]_vars

\* The steps of the main thread. It is an ordinary thread that only computes,
\* sleeps for fixed delays and makes calls that return, so it keeps taking
\* steps; nothing is assumed about when, or whether, the callbacks run.
MainStep ==
    \/ LoadConfig
    \/ InitPublisher
    \/ ConnectSetup
    \/ ConnectWait
    \/ ConnectCheck
    \/ NextJob
    \/ Transform
    \/ PublishSend
    \/ PublishRecord
    \/ PublishWait
    \/ PublishResult
    \/ Summary
    \/ Finally

SpecLive == Init /\ [][Next]_vars /\ WF_vars(MainStep)

\* ------------------------------------------ the publisher object on its own
\* An MQTTPublisher in any state its methods and callbacks can leave it in,
\* on which disconnect is called again and again while the callbacks of a
\* still running network loop interleave. The states: never connected
\* (client None, lines 87-92); connect failed before loop_start (client set,
\* no loop); loop started, connection acknowledged or not, with any table of
\* pending entries and any set of unacknowledged message ids.
SessionInit ==
    /\ config = [file |-> "ok",
                 broker |-> [hasBroker |-> TRUE, hasHost |-> TRUE,
                             hasPort |-> TRUE],
                 machinesKind |-> "list", machines |-> << >>,
                 retry_attempts |-> 0]
    /\ dry_run = FALSE
    /\ pc = "session"
    /\ exitCode = -1
    /\ idx = 0
    /\ payload = None
    /\ publish_payload = None
    /\ attempt = 0
    /\ published = FALSE
    /\ successful_publications = 0
    /\ timeout = 0
    /\ mid = 0
    /\ wait_time = 0
    /\ publisher = TRUE
    /\ client \in BOOLEAN
    /\ loopRunning \in (IF client THEN BOOLEAN ELSE {FALSE})
    /\ connected \in (IF loopRunning THEN BOOLEAN ELSE {FALSE})
    /\ connackOk \in (IF loopRunning THEN {connected, TRUE} ELSE {FALSE})
    /\ nextMid \in (IF connackOk THEN 1..(MaxMids + 1) ELSE {1})
    /\ publish_results \in
          UNION { [D -> BOOLEAN] : D \in SUBSET (1..(nextMid - 1)) }
    /\ inflight \in SUBSET (1..(nextMid - 1))
    /\ connectCalls = IF client THEN 1 ELSE 0
    /\ connectResult = "none"
    /\ disconnectCalls = 0
    /\ genLog = << >>
    /\ attempts = << >>
    /\ lastPublish = NoPublish
    /\ publishCalls = 0
    /\ ackedMids = {}
    /\ raised = "none"
    /\ sleeps = 0
    /\ summaryReached = FALSE
    /\ jobOutcome = << >>
    /\ wire = << >>
    /\ sent = << >>
    /\ generated = None

\* One more call of disconnect on the object.
SessionDisconnect ==
    /\ pc = "session"
    /\ disconnectCalls < MaxDisconnectCalls
    /\ disconnect
    /\ UNCHANGED <<inputVars, mainVars, publisher, client, publish_results,
                   envVars, connectCalls, connectResult, genLog, attempts,
                   lastPublish, publishCalls, ackedMids, sleeps,
                   summaryReached, jobOutcome, logVars>>

SessionNext ==
    \/ SessionDisconnect
    \/ on_connect
    \/ on_publish
    \/ on_disconnect

SpecSession == SessionInit /\ [][SessionNext]_vars

\* ================================================================== claims
\* Auxiliary notions the properties below are stated with.
Loaded == load_config(config)
RunEnded == pc = "done"
TopicsAreStrings == \A i \in 1..Len(config.machines) : config.machines[i].topic.isStr
SucceededJobs == { i \in 1..Len(jobOutcome) : jobOutcome[i] = "ok" }
InPublish == pc \in {"publish", "pub_record", "pub_wait", "pub_result"}
NoBrokerUse == connectCalls = 0 /\ publishCalls = 0 /\ nextMid = 1 /\ ~InPublish
LacksRequiredField(c) ==
    /\ c.file = "ok"
    /\ \/ ~c.broker.hasBroker
       \/ ~c.broker.hasHost
       \/ ~c.broker.hasPort
       \/ c.machinesKind = "missing"
       \/ \E i \in 1..Len(c.machines) :
             ~c.machines[i].hasType \/ ~c.machines[i].hasTopic

C2_ExitCodeZeroIffAllJobsSucceeded ==
    RunEnded =>
        /\ exitCode \in {0, 1}
        /\ exitCode = 0 <=>
              /\ Loaded
              /\ summaryReached
              /\ SucceededJobs # {}
              /\ SucceededJobs = 1..total_machines

C2_Witness ==
    /\ RunEnded /\ ~dry_run /\ exitCode = 0 /\ total_machines = 2

\* C3: in a live run the publish calls of a job are all failures except
\* possibly the last; the job is reported successful as soon as a call
\* succeeds (N failures then a success within the budget: N+1 calls), it is
\* reported failed only after exactly retry_attempts failed calls, and the
\* calls never outnumber retry_attempts.
C3_RetrySemantics ==
    (~dry_run /\ idx >= 1 /\ Len(jobOutcome) = idx /\ pc # "transform"
        /\ jobOutcome[idx] \in {"running", "ok", "pubfail"}) =>
        LET n == Len(attempts) IN
        /\ n <= retry_attempts
        /\ publishCalls <= retry_attempts
        /\ n <= publishCalls /\ publishCalls <= n + 1
        /\ \A k \in 1..(n - 1) : ~attempts[k]
        /\ jobOutcome[idx] = "ok" <=> (n >= 1 /\ attempts[n])
        /\ jobOutcome[idx] = "ok" => publishCalls = n
        /\ jobOutcome[idx] = "pubfail" <=>
              (n = retry_attempts /\ publishCalls = n /\ \A k \in 1..n : ~attempts[k])

C3_Witness ==
    /\ ~dry_run /\ retry_attempts = 2 /\ idx >= 1
    /\ attempts = <<FALSE, TRUE>>
    /\ jobOutcome[idx] = "ok"

\* C4: a job that fails - None from the generator, or every publish attempt
\* failed - does not end the run: the generator has been asked for every
\* job started, and once the job loop is left (topics being strings, so that
\* nothing raises) every configured job has been started and the summary is
\* what follows.
C4_JobFailureDoesNotAbort ==
    /\ genLog = [i \in 1..idx |-> i]
    /\ Len(jobOutcome) = idx
    /\ (TopicsAreStrings /\ pc \in {"summary", "finally", "done"}
          /\ Loaded /\ connectResult # "false") =>
          /\ idx = total_machines
          /\ pc # "summary" => summaryReached

C4_Witness ==
    /\ RunEnded /\ summaryReached /\ total_machines = 2
    /\ jobOutcome[1] \in {"genfail", "pubfail"}
    /\ jobOutcome[2] = "ok"

\* C5: a configuration that lacks the broker section, host, port, the
\* machines sequence, or type or topic on any entry never gets past
\* loading: no connect, no payload request, no publish, and exit status 1.
C5_InvalidConfigStopsAtLoad ==
    LacksRequiredField(config) =>
        /\ pc \in {"load", "done"}
        /\ RunEnded => exitCode = 1
        /\ NoBrokerUse
        /\ genLog = << >>
        /\ ~publisher

C5_Witness ==
    /\ RunEnded /\ exitCode = 1
    /\ Len(config.machines) = 2
    /\ config.broker.hasHost /\ config.broker.hasPort
    /\ config.machines[1].hasType /\ config.machines[1].hasTopic
    /\ config.machines[2].hasType /\ ~config.machines[2].hasTopic

\* C6: a dry run never calls connect or publish, counts every job whose
\* payload was generated as succeeded, and ends (topics being strings) with
\* the summary over all configured jobs.
C6_DryRunNeverPublishes ==
    dry_run =>
        /\ NoBrokerUse
        /\ ~publisher /\ publish_results = << >> /\ inflight = {}
        /\ TopicsAreStrings =>
              /\ \A i \in 1..Len(jobOutcome) :
                    /\ jobOutcome[i] \in {"ok", "genfail", "running"}
                    /\ jobOutcome[i] = "running" => (i = idx /\ pc = "transform")
                    /\ jobOutcome[i] = "genfail" <=>
                          generate_machine_payload(machines[i].type) = {None}
              /\ successful_publications = Cardinality(SucceededJobs)
              /\ (RunEnded /\ Loaded) =>
                    summaryReached /\ Len(jobOutcome) = total_machines

C6_Witness ==
    /\ dry_run /\ RunEnded /\ summaryReached
    /\ total_machines = 2
    /\ jobOutcome = <<"genfail", "ok">>
    /\ successful_publications = 1

\* C7: publish returns true only when on_publish has fired for the message
\* id that this very call was given by the client.
C7_TrueOnlyIfAcknowledged ==
    /\ lastPublish.ok =>
          /\ lastPublish.cause = "acked"
          /\ lastPublish.mid >= 1
          /\ lastPublish.mid \in ackedMids
    /\ (attempts # << >> /\ attempts[Len(attempts)]) =>
          lastPublish.ok /\ lastPublish.mid = nextMid - 1

C7_Witness ==
    /\ lastPublish.ok /\ lastPublish.mid = 2 /\ ackedMids = {2}

\* C8: no error leaves publish: an error code from the client, an
\* acknowledgment timeout and an exception while sending each come back as
\* false, and the retry loop goes on to its next attempt (or, the budget
\* spent, to the next job).
C8_PublishNeverRaises ==
    /\ raised # "publish"
    /\ lastPublish.cause \in {"rc_error", "timeout", "exception", "not_connected"} =>
          /\ ~lastPublish.ok
          /\ attempts # << >> /\ ~attempts[Len(attempts)]
          /\ attempt = Len(attempts)
          /\ pc \in {"publish", "job"} =>
                /\ exitCode = -1
                /\ pc = IF Len(attempts) < retry_attempts THEN "publish" ELSE "job"

C8_Witness ==
    /\ lastPublish.cause = "exception" /\ pc = "publish" /\ attempt = 1

\* C9: a publish call made while the connected flag is false returns false
\* at once: the client is not asked to publish (no message id is handed
\* out) and the pending table is left as it is.
C9_NotConnectedFailsFast ==
    [][ (pc = "publish" /\ ~connected /\ publishCalls' = publishCalls + 1) =>
            /\ nextMid' = nextMid
            /\ inflight' = inflight
            /\ publish_results' = publish_results
            /\ attempts' = Append(attempts, FALSE)
            /\ lastPublish'.cause = "not_connected" ]_vars

C9_Witness ==
    /\ lastPublish.cause = "not_connected" /\ nextMid = 2
    /\ DOMAIN publish_results = {1}

\* C10: when the initial connect of a live run fails - an exception in the
\* setup or no acknowledgment within the wait - the run ends at once with
\* status 1: no payload is requested and nothing is published.
C10_ConnectFailureAborts ==
    connectResult = "false" =>
        /\ ~dry_run
        /\ RunEnded /\ exitCode = 1
        /\ idx = 0 /\ genLog = << >>
        /\ publishCalls = 0 /\ nextMid = 1
        /\ ~summaryReached

C10_Witness ==
    /\ connectResult = "false" /\ loopRunning /\ total_machines = 2

\* What the transform must give for the current job, spelled out from the
\* configured topic and the generator's result.
ExpectedPublishPayload ==
    LET text == config.machines[idx].topic.text IN
    IF text[Len(text)] = "MachineIdentificationType"
    THEN [AssetId |-> generated.MachineIdentificationType.AssetId]
    ELSE [MachineIdentificationType |-> generated.MachineIdentificationType]

JobPastTransform ==
    /\ idx >= 1 /\ pc # "transform"
    /\ jobOutcome[idx] \in {"running", "ok", "pubfail"}

FinishedJobs == { i \in 1..Len(jobOutcome) : jobOutcome[i] # "running" }

\* C11: jobs are published one after the other in the order the
\* configuration declares them: the messages handed to the client carry
\* non-decreasing job positions, each on the topic configured at that
\* position, at most one publish call is open at any time, and none is open
\* when the loop moves on to the next job.
C11_SequentialInConfigOrder ==
    /\ \A a, b \in 1..Len(wire) : a < b => wire[a].job <= wire[b].job
    /\ \A a \in 1..Len(wire) :
          /\ wire[a].job \in 1..idx
          /\ wire[a].topic = config.machines[wire[a].job].topic.text
    /\ publishCalls - Len(attempts) \in {0, 1}
    /\ publishCalls - Len(attempts) = 1 =>
          /\ pc \in {"pub_record", "pub_wait", "pub_result"}
          /\ wire # << >> /\ wire[Len(wire)].job = idx
    /\ pc \in {"job", "transform", "summary"} => publishCalls = Len(attempts)

C11_Witness ==
    /\ Len(wire) = 2
    /\ wire[1].job = 1 /\ wire[2].job = 2
    /\ wire[1].topic # wire[2].topic
    /\ pc = "pub_wait"

\* C12: the payload that is published for a job is fixed by the job's topic
\* and the generated payload alone: the inner record without the wrapper key
\* when the topic ends in MachineIdentificationType, the whole payload with
\* the wrapper key otherwise - whatever the machine type, in a dry run as
\* in a live one, and on every attempt.
C12_TransformDependsOnTopicAndPayload ==
    JobPastTransform =>
        /\ publish_payload = ExpectedPublishPayload
        /\ \A k \in 1..Len(sent) : sent[k] = ExpectedPublishPayload

C12_Witness ==
    /\ ~dry_run /\ JobPastTransform
    /\ Len(sent) = 2
    /\ EndsWithSuffix(config.machines[idx].topic.text)
    /\ sent[2] = generated.MachineIdentificationType

\* C13: the successful count is at every moment the number of jobs whose
\* payload was generated and published (or, in a dry run, generated), never
\* above the number of jobs processed so far; at the summary every configured
\* job has been counted exactly once, as a success or as a failure, and
\* failed = total - successful.
C13_SummaryCounts ==
    /\ successful_publications = Cardinality(SucceededJobs)
    /\ successful_publications <= Cardinality(FinishedJobs)
    /\ Cardinality(FinishedJobs) <= idx
    /\ \A i \in SucceededJobs :
          Lower(config.machines[i].type) \in ValidMachineTypes
    /\ summaryReached =>
          /\ Len(jobOutcome) = total_machines
          /\ \A i \in 1..total_machines :
                jobOutcome[i] \in {"ok", "genfail", "pubfail"}
          /\ Cardinality({ i \in 1..total_machines :
                             jobOutcome[i] \in {"genfail", "pubfail"} })
                = total_machines - successful_publications

C13_Witness ==
    /\ summaryReached /\ total_machines = 2
    /\ jobOutcome = <<"genfail", "ok">>
    /\ successful_publications = 1 /\ exitCode = 1

C15_DisconnectedUntilFreshConnect ==
    [][ /\ disconnectCalls' > disconnectCalls => ~connected'
        /\ (connectResult = "true" /\ ~connected) => ~connected' ]_vars

\* C16 (as stated): a configuration that load_config accepts has at least
\* one job, so no run gets to connect with an empty job list.
C16_NoConnectWithoutJobs ==
    connectCalls >= 1 => total_machines >= 1

\* C17 (as stated): a publish call whose message id was acknowledged by
\* the time the call returned, returned true.
C17_AckBeforeReturnMeansTrue ==
    lastPublish.acked => lastPublish.ok

\* C18: connect returns True only when on_connect has fired with rc = 0
\* before it returned; as long as no acknowledgment with rc = 0 has come
\* the connected flag is false and connect gives up only once its wait is
\* used up; a failing connect, an exception in the setup included, returns
\* False and raises nothing.
C18_ConnectTrueOnlyOnSuccessAck ==
    /\ connectResult = "true" => connackOk
    /\ ~connackOk => ~connected
    /\ (pc = "conn_check" /\ ~connackOk) => timeout = 0
    /\ connectResult = "false" =>
          /\ raised = "none"
          /\ connectCalls = 1
          /\ RunEnded /\ exitCode = 1

C18_Witness ==
    /\ connectResult = "true" /\ connackOk /\ connected
    /\ pc = "job" /\ idx = 0

\* C19: in the retry loop of a job there is one sleep after each failed
\* attempt that is not the last one and none anywhere else: a job that is
\* still being retried has slept once per attempt made, a job published on
\* attempt k has slept k-1 times, a job that used up its R attempts R-1
\* times.
C19_SleepsBetweenAttemptsOnly ==
    (~dry_run /\ idx >= 1) =>
        /\ jobOutcome[idx] = "running" => sleeps = Len(attempts)
        /\ jobOutcome[idx] = "ok" =>
              /\ attempts[Len(attempts)]
              /\ sleeps = Len(attempts) - 1
        /\ jobOutcome[idx] = "pubfail" =>
              /\ Len(attempts) = retry_attempts
              /\ sleeps = IF retry_attempts >= 1 THEN retry_attempts - 1 ELSE 0

C19_Witness ==
    /\ ~dry_run /\ idx = 1 /\ retry_attempts = 2
    /\ jobOutcome[idx] = "ok"
    /\ attempts = <<FALSE, TRUE>>
    /\ sleeps = 1

AssetIdOf(p) ==
    IF "AssetId" \in DOMAIN p THEN p.AssetId
    ELSE p.MachineIdentificationType.AssetId

\* C20: the generator is called once for each job the loop comes to, in
\* job order and before anything is published for that job - once per
\* configured job in a run that reaches the summary; every attempt of a job
\* sends the payload generated for that very job.
C20_PayloadFreshPerJob ==
    /\ genLog = [i \in 1..idx |-> i]
    /\ summaryReached => Len(genLog) = total_machines
    /\ payload = generated
    /\ \A a \in 1..Len(wire) : wire[a].job \in 1..Len(genLog)
    /\ sent # << >> =>
          /\ generated # None
          /\ \A k \in 1..Len(sent) :
                AssetIdOf(sent[k]) = generated.MachineIdentificationType.AssetId

C20_Witness ==
    /\ idx = 2 /\ genLog = <<1, 2>>
    /\ jobOutcome[1] = "ok"
    /\ Len(sent) = 1 /\ Len(wire) = 2
    /\ pc = "pub_wait"

\* C21 (as stated): in a live run connect is called once, before the first
\* payload is generated, and never again; so once a publish attempt of a job
\* has found the session disconnected, every further attempt of that job
\* fails fast as well and the job ends as failed.
C21_ConnectOnceThenFailFast ==
    [][ /\ connectCalls' <= 1
        /\ (~dry_run /\ idx' >= 1) => (connectCalls' = 1 /\ connectResult' = "true")
        /\ (lastPublish.cause = "not_connected"
              /\ publishCalls' = publishCalls + 1) =>
              /\ lastPublish'.cause = "not_connected"
              /\ nextMid' = nextMid ]_vars

\* C22: every run comes to its end whatever the broker and the callbacks
\* do, and also when no callback ever runs: the wait in connect, the wait
\* in publish, the retry loop and the job loop are all bounded, so the
\* process exits.
C22_EveryRunTerminates == <>RunEnded

C22_Witness ==
    /\ RunEnded /\ summaryReached
    /\ ~dry_run /\ total_machines = 1 /\ retry_attempts = 2
    /\ nextMid = 3 /\ ackedMids = {}
    /\ jobOutcome = <<"pubfail">>

\* C23: an acknowledgment that comes late, for an attempt that has already
\* timed out, never turns a later publish call into a success. Every call
\* gets a message id no earlier call had, and what it returns is what the
\* pending table holds under that id when it reads it, whatever late
\* callbacks have written under the ids of earlier calls.
C23_LateAckDoesNotCount ==
    [][ (pc = "pub_result" /\ pc' # pc) =>
          /\ mid = nextMid - 1
          /\ \A a \in 1..Len(attempts) : ~attempts[a]
          /\ lastPublish'.mid = mid
          /\ lastPublish'.ok = publish_results[mid]
          /\ lastPublish'.ok => mid \in ackedMids
          /\ publish_results' = publish_results ]_vars

C23_Witness ==
    /\ attempts = <<FALSE, FALSE>>
    /\ lastPublish.cause = "timeout" /\ lastPublish.mid = 2
    /\ ackedMids = {1}
    /\ publish_results = <<TRUE, FALSE>>
====
